---- MODULE Spec2Model ----
(***************************************************************************)
(* Model of main.py: the Department and Employee entities, their save()    *)
(* methods, the schema reset create_tables() and the generators            *)
(* get_random_departments / get_random_employees / create_fake_data,       *)
(* running against an ODBC store (pyodbc cursor + connection, autocommit   *)
(* off).                                                                   *)
(*                                                                         *)
(* Texts (names) are run-length encoded: a text is a sequence of runs      *)
(* [c |-> character, n |-> repetitions], adjacent runs having different    *)
(* characters and n >= 1, so that every string has exactly one encoding    *)
(* and names around the 100-character limit stay small values.             *)
(* name_arg is the name argument of the constructor called last.           *)
(***************************************************************************)
EXTENDS Integers, Sequences, FiniteSets, TLC

VARIABLES pc, db, committed, departments, employees,
          departments_amount, employees_amount, name_arg, calls

vars == <<pc, db, committed, departments, employees,
          departments_amount, employees_amount, name_arg, calls>>

(***************************************************************************)
(* Bounds of the model.                                                    *)
(***************************************************************************)
MaxDepartments == 2
MaxEmployees == 3
MaxObjects == 2
MaxNameRuns == 3

(***************************************************************************)
(* Program constants.                                                      *)
(***************************************************************************)
None == 0
NameWidth == 100
ColumnWidth == 100
IdentitySeed == 1
SalaryLow == 20000
SalaryHigh == 100001

(***************************************************************************)
(* Texts.                                                                  *)
(***************************************************************************)
Whitespace == {" ", "\t"}

Run(c, n) == [c |-> c, n |-> n]

IsBlank(r) == r.c \in Whitespace \/ r.n = 0

RECURSIVE TextLen(_)
TextLen(t) == IF t = <<>> THEN 0 ELSE t[1].n + TextLen(Tail(t))

Front(s) == SubSeq(s, 1, Len(s) - 1)

Last(s) == s[Len(s)]

\* text.strip().split(): the words of the text, whitespace discarded.
SplitWords(t) == SelectSeq(t, LAMBDA r : r.c \notin Whitespace)

\* ' '.join(words)
RECURSIVE JoinSpace(_)
JoinSpace(ws) ==
    IF Len(ws) <= 1 THEN ws
    ELSE <<ws[1], Run(" ", 1)>> \o JoinSpace(Tail(ws))

\* TextWrapper._wrap_chunks, inner loop: how many leading chunks fit on the
\* line, taken greedily while cur_len + len(chunk) <= width.
RECURSIVE FitCount(_, _, _)
FitCount(chunks, cur_len, width) ==
    IF chunks # <<>> /\ cur_len + chunks[1].n <= width
    THEN 1 + FitCount(Tail(chunks), cur_len + chunks[1].n, width)
    ELSE 0

\* placeholder.lstrip()
RECURSIVE LStrip(_)
LStrip(t) == IF t # <<>> /\ IsBlank(t[1]) THEN LStrip(Tail(t)) ELSE t

\* TextWrapper._wrap_chunks, the truncation loop of the last permitted line:
\* chunks are popped until the line ends in a word and the placeholder fits.
RECURSIVE DropToWord(_, _, _)
DropToWord(cur_line, width, placeholder) ==
    IF cur_line = <<>> THEN LStrip(placeholder)
    ELSE IF ~IsBlank(Last(cur_line))
            /\ TextLen(cur_line) + TextLen(placeholder) <= width
         THEN cur_line \o placeholder
         ELSE DropToWord(Front(cur_line), width, placeholder)

\* TextWrapper(width, max_lines=1, placeholder).fill(chunks): the one line.
WrapLine(chunks, width, placeholder) ==
    LET k == FitCount(chunks, 0, width)
        fit == SubSeq(chunks, 1, k)
        rest == SubSeq(chunks, k + 1, Len(chunks))
        long == rest # <<>> /\ rest[1].n > width
        space_left == width - TextLen(fit)
        \* _handle_long_word: break_long_words puts the head of the word on
        \* the line (an empty head when no space is left).
        line == IF long THEN Append(fit, Run(rest[1].c, space_left)) ELSE fit
        left == IF long
                THEN <<Run(rest[1].c, rest[1].n - space_left)>> \o Tail(rest)
                ELSE rest
        \* drop_whitespace: a trailing whitespace (or empty) chunk is dropped.
        cur_line == IF line # <<>> /\ IsBlank(Last(line)) THEN Front(line) ELSE line
    IN  IF cur_line = <<>> THEN <<>>
        ELSE IF (left = <<>> \/ (Len(left) = 1 /\ IsBlank(left[1])))
                /\ TextLen(cur_line) <= width
             THEN cur_line
             ELSE DropToWord(cur_line, width, placeholder)

\* textwrap.shorten(text, width, placeholder=...)
shorten(text, width, placeholder) ==
    WrapLine(JoinSpace(SplitWords(text)), width, placeholder)

\* Variant: the placeholder left at the default of textwrap.shorten, " [...]".
Placeholder_default == <<Run(" ", 1), Run("[", 1), Run(".", 3), Run("]", 1)>>

\* The placeholder argument of both constructors: placeholder="".
Placeholder == <<>>

(***************************************************************************)
(* The store: a table is absent or holds rows and its IDENTITY counter.    *)
(* db is what the session sees (its uncommitted work included); committed  *)
(* is what conn.commit() has made durable.                                 *)
(***************************************************************************)
NoTable == [exists |-> FALSE, rows |-> <<>>, next |-> IdentitySeed]

EmptyTable == [exists |-> TRUE, rows |-> <<>>, next |-> IdentitySeed]

NoTables == [department |-> NoTable, employee |-> NoTable]

EmptyTables == [department |-> EmptyTable, employee |-> EmptyTable]

Ids(table) == {table.rows[i].id : i \in DOMAIN table.rows}

Accepted(s) == [ok |-> TRUE, db |-> s]

Rejected(s) == [ok |-> FALSE, db |-> s]

\* DROP TABLE employee
SqlDropEmployee(s) ==
    IF s.employee.exists
    THEN Accepted([s EXCEPT !.employee = NoTable])
    ELSE Rejected(s)

\* DROP TABLE department: refused while employee's foreign key references it.
SqlDropDepartment(s) ==
    IF s.department.exists /\ ~s.employee.exists
    THEN Accepted([s EXCEPT !.department = NoTable])
    ELSE Rejected(s)

\* CREATE TABLE department(id INTEGER PRIMARY KEY IDENTITY, name NVARCHAR(100) NOT NULL)
SqlCreateDepartment(s) ==
    IF ~s.department.exists
    THEN Accepted([s EXCEPT !.department = EmptyTable])
    ELSE Rejected(s)

\* CREATE TABLE employee(...), with its two foreign keys.
SqlCreateEmployee(s) ==
    IF ~s.employee.exists /\ s.department.exists
    THEN Accepted([s EXCEPT !.employee = EmptyTable])
    ELSE Rejected(s)

\* INSERT INTO department(name) VALUES (?)
SqlInsertDepartment(s, name) ==
    IF s.department.exists /\ TextLen(name) <= ColumnWidth
    THEN Accepted([s EXCEPT
             !.department.rows = Append(@, [id |-> s.department.next, name |-> name]),
             !.department.next = @ + 1])
    ELSE Rejected(s)

\* UPDATE department SET name = ? WHERE id = ?
SqlUpdateDepartment(s, name, id) ==
    IF s.department.exists
       /\ (id \in Ids(s.department) => TextLen(name) <= ColumnWidth)
    THEN Accepted([s EXCEPT !.department.rows =
             [i \in DOMAIN @ |-> IF @[i].id = id THEN [@[i] EXCEPT !.name = name]
                                 ELSE @[i]]])
    ELSE Rejected(s)

\* The columns of an employee row satisfy NOT NULL, the width of name and the
\* two foreign keys.
EmployeeRowOk(s, department_id, chief_id, name) ==
    /\ department_id # None
    /\ department_id \in Ids(s.department)
    /\ chief_id # None => chief_id \in Ids(s.employee)
    /\ TextLen(name) <= ColumnWidth

\* INSERT INTO employee(department_id, chief_id, name, salary) VALUES (?, ?, ?, ?)
SqlInsertEmployee(s, department_id, chief_id, name, salary) ==
    IF s.employee.exists /\ EmployeeRowOk(s, department_id, chief_id, name)
    THEN Accepted([s EXCEPT
             !.employee.rows = Append(@, [id |-> s.employee.next,
                                          department_id |-> department_id,
                                          chief_id |-> chief_id,
                                          name |-> name, salary |-> salary]),
             !.employee.next = @ + 1])
    ELSE Rejected(s)

\* UPDATE employee SET department_id = ?, chief_id = ?, name = ?, salary = ? WHERE id = ?
SqlUpdateEmployee(s, department_id, chief_id, name, salary, id) ==
    IF s.employee.exists
       /\ (id \in Ids(s.employee) => EmployeeRowOk(s, department_id, chief_id, name))
    THEN Accepted([s EXCEPT !.employee.rows =
             [i \in DOMAIN @ |->
                 IF @[i].id = id
                 THEN [id |-> id, department_id |-> department_id,
                       chief_id |-> chief_id, name |-> name, salary |-> salary]
                 ELSE @[i]]])
    ELSE Rejected(s)

(***************************************************************************)
(* The persistence calls.  calls is the log of the calls made on the       *)
(* cursor and the connection by the top-level call in progress            *)
(* (create_tables or create_fake_data), each with                          *)
(* its outcome: "ok", "rejected" (the store refuses the statement) or      *)
(* "fault" (the driver or the connection fails).  A call that does not     *)
(* end "ok" raises.                                                        *)
(***************************************************************************)
Call(op, sql, args, res, val) ==
    [op |-> op, sql |-> sql, args |-> args, res |-> res, val |-> val]

Outcome(ok, s, cm, log, id) ==
    [ok |-> ok, db |-> s, committed |-> cm, calls |-> log, id |-> id]

StatementFaults == {"none", "execute", "commit"}

InsertFaults == {"none", "execute", "select", "fetchone", "commit"}

\* cursor.execute(sql, args...): the outcome of the call, r being what the
\* store answers to the statement.
ExecuteRes(r, fault) ==
    IF fault = "execute" THEN "fault" ELSE IF r.ok THEN "ok" ELSE "rejected"

\* cursor.execute(sql, args...); conn.commit()
ExecuteCommit(sql, args, r, id, s, cm, log, fault) ==
    LET res == ExecuteRes(r, fault)
        log1 == Append(log, Call("execute", sql, args, res, None))
    IN  IF res # "ok" THEN Outcome(FALSE, s, cm, log1, id)
        ELSE IF fault = "commit"
             THEN Outcome(FALSE, r.db, cm,
                          Append(log1, Call("commit", "", <<>>, "fault", None)), id)
             ELSE Outcome(TRUE, r.db, r.db,
                          Append(log1, Call("commit", "", <<>>, "ok", None)), id)

\* cursor.execute(insert); cursor.execute("SELECT @@IDENTITY AS ID");
\* self.id = cursor.fetchone()[0]; conn.commit()
\* identity is the value @@IDENTITY holds after the insert.
InsertFetchCommit(sql, args, r, identity, s, cm, log, fault) ==
    LET res == ExecuteRes(r, fault)
        log1 == Append(log, Call("execute", sql, args, res, None))
        log2 == Append(log1, Call("execute", "SELECT @@IDENTITY", <<>>,
                                  IF fault = "select" THEN "fault" ELSE "ok", None))
        log3 == Append(log2, Call("fetchone", "", <<>>,
                                  IF fault = "fetchone" THEN "fault" ELSE "ok",
                                  IF fault = "fetchone" THEN None ELSE identity))
    IN  IF res # "ok" THEN Outcome(FALSE, s, cm, log1, None)
        ELSE IF fault = "select" THEN Outcome(FALSE, r.db, cm, log2, None)
        ELSE IF fault = "fetchone" THEN Outcome(FALSE, r.db, cm, log3, None)
        ELSE IF fault = "commit"
             THEN Outcome(FALSE, r.db, cm,
                          Append(log3, Call("commit", "", <<>>, "fault", None)),
                          identity)
             ELSE Outcome(TRUE, r.db, r.db,
                          Append(log3, Call("commit", "", <<>>, "ok", None)),
                          identity)

(***************************************************************************)
(* Department.                                                             *)
(***************************************************************************)
Department_create_table(s, cm, log, fault) ==
    ExecuteCommit("CREATE TABLE department", <<>>, SqlCreateDepartment(s),
                  None, s, cm, log, fault)

Department_drop_table(s, cm, log, fault) ==
    ExecuteCommit("DROP TABLE department", <<>>, SqlDropDepartment(s),
                  None, s, cm, log, fault)

\* Variant: the identity read back is not assigned to self.id.
Department_save_no_id(self, s, cm, log, fault) ==
    IF self.id = None
    THEN LET r == SqlInsertDepartment(s, self.name)
             o == InsertFetchCommit("INSERT INTO department", [name |-> self.name], r,
                                    IF r.ok THEN Last(r.db.department.rows).id ELSE None,
                                    s, cm, log, fault)
         IN  [o EXCEPT !.id = None]
    ELSE ExecuteCommit("UPDATE department", [name |-> self.name, id |-> self.id],
                       SqlUpdateDepartment(s, self.name, self.id),
                       self.id, s, cm, log, fault)

\* Department.save(self): the outcome, its id field the value of self.id.
Department_save(self, s, cm, log, fault) ==
    IF self.id = None
    THEN LET r == SqlInsertDepartment(s, self.name)
         IN  InsertFetchCommit("INSERT INTO department", [name |-> self.name], r,
                               IF r.ok THEN Last(r.db.department.rows).id ELSE None,
                               s, cm, log, fault)
    ELSE ExecuteCommit("UPDATE department", [name |-> self.name, id |-> self.id],
                       SqlUpdateDepartment(s, self.name, self.id),
                       self.id, s, cm, log, fault)

(***************************************************************************)
(* Employee.  The department and the chief of an Employee object are       *)
(* references to objects: ds and es are the objects they refer to, the     *)
(* fields holding positions in them (chief None for no chief).             *)
(***************************************************************************)
Employee_create_table(s, cm, log, fault) ==
    ExecuteCommit("CREATE TABLE employee", <<>>, SqlCreateEmployee(s),
                  None, s, cm, log, fault)

Employee_drop_table(s, cm, log, fault) ==
    ExecuteCommit("DROP TABLE employee", <<>>, SqlDropEmployee(s),
                  None, s, cm, log, fault)

\* self.chief.id if self.chief is not None else None
ChiefId(self, es) == IF self.chief # None THEN es[self.chief].id ELSE None

\* Variant: the identity read back is not assigned to self.id.
Employee_save_no_id(self, ds, es, s, cm, log, fault) ==
    LET department_id == ds[self.department].id
        chief_id == ChiefId(self, es)
        args == [department_id |-> department_id, chief_id |-> chief_id,
                 name |-> self.name, salary |-> self.salary]
        r == SqlInsertEmployee(s, department_id, chief_id, self.name, self.salary)
        o == InsertFetchCommit("INSERT INTO employee", args, r,
                               IF r.ok THEN Last(r.db.employee.rows).id ELSE None,
                               s, cm, log, fault)
    IN  IF self.id = None
        THEN [o EXCEPT !.id = None]
        ELSE ExecuteCommit("UPDATE employee", args,
                           SqlUpdateEmployee(s, department_id, chief_id, self.name,
                                             self.salary, self.id),
                           self.id, s, cm, log, fault)

\* Variant: save() inserts whether or not self.id is set.
Employee_save_insert_only(self, ds, es, s, cm, log, fault) ==
    LET department_id == ds[self.department].id
        chief_id == ChiefId(self, es)
        args == [department_id |-> department_id, chief_id |-> chief_id,
                 name |-> self.name, salary |-> self.salary]
        r == SqlInsertEmployee(s, department_id, chief_id, self.name, self.salary)
    IN  InsertFetchCommit("INSERT INTO employee", args, r,
                          IF r.ok THEN Last(r.db.employee.rows).id ELSE None,
                          s, cm, log, fault)

\* Employee.save(self)
Employee_save(self, ds, es, s, cm, log, fault) ==
    LET department_id == ds[self.department].id
        chief_id == ChiefId(self, es)
        args == [department_id |-> department_id, chief_id |-> chief_id,
                 name |-> self.name, salary |-> self.salary]
    IN  IF self.id = None
        THEN LET r == SqlInsertEmployee(s, department_id, chief_id, self.name,
                                        self.salary)
             IN  InsertFetchCommit("INSERT INTO employee", args, r,
                                   IF r.ok THEN Last(r.db.employee.rows).id ELSE None,
                                   s, cm, log, fault)
        ELSE ExecuteCommit("UPDATE employee", args,
                           SqlUpdateEmployee(s, department_id, chief_id, self.name,
                                             self.salary, self.id),
                           self.id, s, cm, log, fault)

\* Department.__init__(self, name): the object and the outcome of its save().
Department_init(name, s, cm, log, fault) ==
    LET self == [name |-> shorten(name, NameWidth, Placeholder), id |-> None]
        r == Department_save(self, s, cm, log, fault)
    IN  [ok |-> r.ok, self |-> [self EXCEPT !.id = r.id], db |-> r.db,
         committed |-> r.committed, calls |-> r.calls]

\* Employee.__init__(self, department, chief, name, salary)
Employee_init(department, chief, name, salary, ds, es, s, cm, log, fault) ==
    LET self == [department |-> department, chief |-> chief,
                 name |-> shorten(name, NameWidth, Placeholder),
                 salary |-> salary, id |-> None]
        r == Employee_save(self, ds, es, s, cm, log, fault)
    IN  [ok |-> r.ok, self |-> [self EXCEPT !.id = r.id], db |-> r.db,
         committed |-> r.committed, calls |-> r.calls]

(***************************************************************************)
(* The random and the fake-data sources.                                   *)
(***************************************************************************)
\* random.randint(a, b): the values it can return.
randint(a, b) == a .. b

\* The salaries the model draws: those of SalaryProbes that randint can return.
SalaryProbes == {SalaryLow - 1, SalaryLow, SalaryHigh, SalaryHigh + 1}

Salaries == randint(SalaryLow, SalaryHigh) \cap SalaryProbes

\* fake.unique.catch_phrase(), the k-th value of the seeded generator: two
\* words, different for every k.
catch_phrase(k) == <<Run("a", k), Run(" ", 1), Run("a", k + 1)>>

\* fake.unique.name(), the k-th value.
name(k) == <<Run("a", k + 1), Run(" ", 1), Run("a", k)>>

(***************************************************************************)
(* The script: create_tables(), create_fake_data(d, e), close.             *)
(***************************************************************************)
\* Variant: the employee table created before the department table.
create_tables_swapped ==
    <<"Employee.drop_table", "Department.drop_table",
      "Employee.create_table", "Department.create_table">>

\* create_tables(): the order of its four statements.
create_tables ==
    <<"Employee.drop_table", "Department.drop_table",
      "Department.create_table", "Employee.create_table">>

\* Variant: no try/except around the drops.
Caught_none(p) == FALSE

\* Variant: a try/except around every statement.
Caught_all(p) == TRUE

\* The try/except of create_tables(): the calls whose exception is logged
\* and not raised again.
Caught(p) == p \in {"Employee.drop_table", "Department.drop_table"}

After(p) ==
    LET i == CHOOSE j \in DOMAIN create_tables : create_tables[j] = p
    IN  IF i < Len(create_tables) THEN create_tables[i + 1] ELSE "create_fake_data"

\* Variant: one iteration too many.
LoopContinues_inclusive(made_so_far, amount) == made_so_far <= amount

\* for _ in range(amount), made_so_far iterations done.
LoopContinues(made_so_far, amount) == made_so_far < amount

\* One statement of create_tables(), r its outcome.  An exception that is not
\* caught ends the process: the connection is lost with its uncommitted work.
ResetStep(p, r) ==
    /\ pc = p
    /\ IF r.ok \/ Caught(p)
       THEN pc' = After(p) /\ db' = r.db
       ELSE pc' = "aborted" /\ db' = r.committed
    /\ committed' = r.committed
    /\ calls' = r.calls
    /\ UNCHANGED <<departments, employees, departments_amount, employees_amount, name_arg>>

DropEmployeeTable ==
    \E f \in StatementFaults :
        ResetStep("Employee.drop_table", Employee_drop_table(db, committed, calls, f))

DropDepartmentTable ==
    \E f \in StatementFaults :
        ResetStep("Department.drop_table", Department_drop_table(db, committed, calls, f))

CreateDepartmentTable ==
    \E f \in StatementFaults :
        ResetStep("Department.create_table",
                  Department_create_table(db, committed, calls, f))

CreateEmployeeTable ==
    \E f \in StatementFaults :
        ResetStep("Employee.create_table", Employee_create_table(db, committed, calls, f))

\* create_fake_data(departments_amount, employees_amount) is called.
CallCreateFakeData ==
    /\ pc = "create_fake_data"
    /\ \E d \in 0 .. MaxDepartments, e \in 0 .. MaxEmployees :
           departments_amount' = d /\ employees_amount' = e
    /\ pc' = "get_random_departments"
    /\ departments' = <<>>
    /\ employees' = <<>>
    /\ calls' = <<>>
    /\ UNCHANGED <<db, committed, name_arg>>

\* get_random_departments: one iteration of the loop.
GetRandomDepartmentsStep ==
    /\ pc = "get_random_departments"
    /\ LoopContinues(Len(departments), departments_amount)
    /\ \E f \in InsertFaults :
           LET r == Department_init(catch_phrase(Len(departments) + 1),
                                    db, committed, calls, f)
           IN  /\ IF r.ok
                  THEN /\ departments' = Append(departments, r.self)
                       /\ pc' = pc
                       /\ db' = r.db
                  ELSE /\ departments' = departments
                       /\ pc' = "aborted"
                       /\ db' = r.committed
               /\ committed' = r.committed
               /\ calls' = r.calls
    /\ name_arg' = catch_phrase(Len(departments) + 1)
    /\ UNCHANGED <<employees, departments_amount, employees_amount>>

\* get_random_departments returns; get_random_employees is called.
GetRandomDepartmentsReturn ==
    /\ pc = "get_random_departments"
    /\ ~LoopContinues(Len(departments), departments_amount)
    /\ pc' = "get_random_employees"
    /\ UNCHANGED <<db, committed, departments, employees, departments_amount,
                   employees_amount, name_arg, calls>>

\* Variant: no early return.
NoDepartments_never(ds) == FALSE

\* if len(departments) < 1: return employees
NoDepartments(ds) == Len(ds) < 1

\* get_random_employees: the early return.
GetRandomEmployeesEmpty ==
    /\ pc = "get_random_employees"
    /\ NoDepartments(departments)
    /\ pc' = "return"
    /\ UNCHANGED <<db, committed, departments, employees, departments_amount,
                   employees_amount, name_arg, calls>>

\* chief_pos: random.randint(-1, len(employees) - 1), or -1 for the first.
ChiefPositions(es) == IF Len(es) > 0 THEN randint(-1, Len(es) - 1) ELSE {-1}

\* employees[chief_pos] if chief_pos > -1 else None, as a position in es.
ChiefOf(chief_pos) == IF chief_pos > -1 THEN chief_pos + 1 ELSE None

\* get_random_employees: one iteration of the loop.  random.randint raises
\* ValueError on an empty range, which ends the process as any exception does.
GetRandomEmployeesStep ==
    /\ pc = "get_random_employees"
    /\ ~NoDepartments(departments)
    /\ LoopContinues(Len(employees), employees_amount)
    /\ IF randint(0, Len(departments) - 1) = {}
       THEN /\ pc' = "aborted"
            /\ db' = committed
            /\ UNCHANGED <<committed, employees, name_arg, calls>>
       ELSE \E department_pos \in randint(0, Len(departments) - 1),
               chief_pos \in ChiefPositions(employees),
               salary \in Salaries,
               f \in InsertFaults :
                LET r == Employee_init(department_pos + 1, ChiefOf(chief_pos),
                                       name(Len(employees) + 1), salary,
                                       departments, employees,
                                       db, committed, calls, f)
                IN  /\ IF r.ok
                       THEN /\ employees' = Append(employees, r.self)
                            /\ pc' = pc
                            /\ db' = r.db
                       ELSE /\ employees' = employees
                            /\ pc' = "aborted"
                            /\ db' = r.committed
                    /\ committed' = r.committed
                    /\ calls' = r.calls
                    /\ name_arg' = name(Len(employees) + 1)
    /\ UNCHANGED <<departments, departments_amount, employees_amount>>

\* get_random_employees returns its list; create_fake_data returns both.
GetRandomEmployeesReturn ==
    /\ pc = "get_random_employees"
    /\ ~NoDepartments(departments)
    /\ ~LoopContinues(Len(employees), employees_amount)
    /\ pc' = "return"
    /\ UNCHANGED <<db, committed, departments, employees, departments_amount,
                   employees_amount, name_arg, calls>>

\* cursor.close(); conn.close(): uncommitted work is rolled back.
Close ==
    /\ pc = "return"
    /\ pc' = "done"
    /\ db' = committed
    /\ UNCHANGED <<committed, departments, employees, departments_amount,
                   employees_amount, name_arg, calls>>

\* The script is run again, on the store as the last run left it.
RunAgain ==
    /\ pc \in {"done", "aborted"}
    /\ pc' = create_tables[1]
    /\ db' = committed
    /\ departments' = <<>>
    /\ employees' = <<>>
    /\ departments_amount' = 0
    /\ employees_amount' = 0
    /\ name_arg' = <<>>
    /\ calls' = <<>>
    /\ UNCHANGED committed

Init ==
    /\ pc = create_tables[1]
    /\ db = NoTables
    /\ committed = NoTables
    /\ departments = <<>>
    /\ employees = <<>>
    /\ departments_amount = 0
    /\ employees_amount = 0
    /\ name_arg = <<>>
    /\ calls = <<>>

Next ==
    \/ DropEmployeeTable
    \/ DropDepartmentTable
    \/ CreateDepartmentTable
    \/ CreateEmployeeTable
    \/ CallCreateFakeData
    \/ GetRandomDepartmentsStep
    \/ GetRandomDepartmentsReturn
    \/ GetRandomEmployeesEmpty
    \/ GetRandomEmployeesStep
    \/ GetRandomEmployeesReturn
    \/ Close
    \/ RunAgain

Spec == Init /\ [][Next]_vars

(***************************************************************************)
(* The entities used directly: a caller constructs Departments and         *)
(* Employees on freshly created tables, assigns to their fields and calls  *)
(* save() again, one object at a time.  No fault is injected and the log   *)
(* is not kept.                                                            *)
(***************************************************************************)
\* The names a caller passes and assigns: within the column width.
ApiNames == {catch_phrase(1), name(1)}

ApiSalaries == {SalaryLow, SalaryLow + 1}

\* Department(n)
ConstructDepartment(n) ==
    LET r == Department_init(n, db, committed, <<>>, "none")
    IN  /\ name_arg' = n
        /\ UNCHANGED <<pc, employees, departments_amount, employees_amount, calls>>
        /\ departments' = IF r.ok THEN Append(departments, r.self) ELSE departments
        /\ db' = r.db
        /\ committed' = r.committed

\* Employee(departments[d], chief, n, salary), chief None or employees[chief]
ConstructEmployee(d, chief, n, salary) ==
    LET r == Employee_init(d, chief, n, salary, departments, employees,
                           db, committed, <<>>, "none")
    IN  /\ name_arg' = n
        /\ UNCHANGED <<pc, departments, departments_amount, employees_amount, calls>>
        /\ employees' = IF r.ok THEN Append(employees, r.self) ELSE employees
        /\ db' = r.db
        /\ committed' = r.committed

ApiNewDepartment ==
    /\ pc = "api"
    /\ Len(departments) + Len(employees) < MaxObjects
    /\ \E n \in ApiNames : ConstructDepartment(n)

ApiNewEmployee ==
    /\ pc = "api"
    /\ Len(departments) + Len(employees) < MaxObjects
    /\ \E d \in DOMAIN departments, chief \in {None} \cup DOMAIN employees,
          n \in ApiNames, salary \in ApiSalaries :
           ConstructEmployee(d, chief, n, salary)

\* The row of departments[i] holds the fields of the object.
DepartmentSaved(i) ==
    \E k \in DOMAIN db.department.rows :
        db.department.rows[k] = [id |-> departments[i].id, name |-> departments[i].name]

\* The row of employees[i] holds the fields of the object.
EmployeeSaved(i) ==
    \E k \in DOMAIN db.employee.rows :
        db.employee.rows[k] =
            [id |-> employees[i].id,
             department_id |-> departments[employees[i].department].id,
             chief_id |-> IF employees[i].chief = None THEN None
                          ELSE employees[employees[i].chief].id,
             name |-> employees[i].name,
             salary |-> employees[i].salary]

\* The caller works on one object at a time: it assigns to the fields of an
\* object only when every other object has been saved.
OthersSaved(ds, es) ==
    /\ \A j \in DOMAIN departments \ ds : DepartmentSaved(j)
    /\ \A j \in DOMAIN employees \ es : EmployeeSaved(j)

\* departments[i].name = n
ApiSetDepartmentName ==
    /\ pc = "api"
    /\ \E i \in DOMAIN departments, n \in ApiNames :
           /\ OthersSaved({i}, {})
           /\ departments' = [departments EXCEPT ![i].name = n]
    /\ UNCHANGED <<pc, db, committed, employees, departments_amount,
                   employees_amount, name_arg, calls>>

\* An assignment to one field of employees[i].
ApiSetEmployeeField ==
    /\ pc = "api"
    /\ \E i \in DOMAIN employees :
           /\ OthersSaved({}, {i})
           /\ \/ \E n \in ApiNames : employees' = [employees EXCEPT ![i].name = n]
              \/ \E x \in ApiSalaries : employees' = [employees EXCEPT ![i].salary = x]
              \/ \E d \in DOMAIN departments :
                     employees' = [employees EXCEPT ![i].department = d]
              \/ \E c \in {None} \cup DOMAIN employees :
                     employees' = [employees EXCEPT ![i].chief = c]
    /\ UNCHANGED <<pc, db, committed, departments, departments_amount,
                   employees_amount, name_arg, calls>>

\* departments[i].save()
SaveDepartment(i) ==
    LET r == Department_save(departments[i], db, committed, <<>>, "none")
    IN  /\ UNCHANGED <<pc, employees, departments_amount, employees_amount,
                       name_arg, calls>>
        /\ departments' = [departments EXCEPT ![i].id = r.id]
        /\ db' = r.db
        /\ committed' = r.committed

\* employees[i].save()
SaveEmployee(i) ==
    LET r == Employee_save(employees[i], departments, employees,
                           db, committed, <<>>, "none")
    IN  /\ UNCHANGED <<pc, departments, departments_amount, employees_amount,
                       name_arg, calls>>
        /\ employees' = [employees EXCEPT ![i].id = r.id]
        /\ db' = r.db
        /\ committed' = r.committed

ApiSaveDepartment == pc = "api" /\ \E i \in DOMAIN departments : SaveDepartment(i)

ApiSaveEmployee == pc = "api" /\ \E i \in DOMAIN employees : SaveEmployee(i)

InitApi ==
    /\ pc = "api"
    /\ db = EmptyTables
    /\ committed = EmptyTables
    /\ departments = <<>>
    /\ employees = <<>>
    /\ departments_amount = 0
    /\ employees_amount = 0
    /\ name_arg = <<>>
    /\ calls = <<>>

NextApi ==
    \/ ApiNewDepartment
    \/ ApiNewEmployee
    \/ ApiSetDepartmentName
    \/ ApiSetEmployeeField
    \/ ApiSaveDepartment
    \/ ApiSaveEmployee

SpecApi == InitApi /\ [][NextApi]_vars

(***************************************************************************)
(* The constructors on every name of a bounded set: one Department, then   *)
(* one Employee of it, both constructed with the name drawn initially.     *)
(***************************************************************************)
Chars == {"a", " ", "\t"}

RunLens == {1, NameWidth - 2, NameWidth - 1, NameWidth, NameWidth + 1}

\* The texts of k runs at most.
RECURSIVE TextsOf(_)
TextsOf(k) ==
    IF k = 0 THEN {<<>>}
    ELSE LET shorter == TextsOf(k - 1)
         IN  shorter \cup
             UNION {{Append(t, Run(c, n)) :
                        c \in Chars \ (IF t = <<>> THEN {} ELSE {Last(t).c}),
                        n \in RunLens} :
                    t \in {u \in shorter : Len(u) = k - 1}}

RawNames == TextsOf(MaxNameRuns)

NameDepartment ==
    /\ pc = "name"
    /\ departments = <<>>
    /\ ConstructDepartment(name_arg)

NameEmployee ==
    /\ pc = "name"
    /\ departments # <<>>
    /\ employees = <<>>
    /\ ConstructEmployee(1, None, name_arg, SalaryLow)

InitName ==
    /\ pc = "name"
    /\ db = EmptyTables
    /\ committed = EmptyTables
    /\ departments = <<>>
    /\ employees = <<>>
    /\ departments_amount = 0
    /\ employees_amount = 0
    /\ name_arg \in RawNames
    /\ calls = <<>>

NextName == NameDepartment \/ NameEmployee

SpecName == InitName /\ [][NextName]_vars

(***************************************************************************)
(* Properties.                                                             *)
(***************************************************************************)
IsExecute(j, sql) == calls[j].op = "execute" /\ calls[j].sql = sql

\* Call j reads back, with success, the identity generated by an insert.
IsIdentityOf(j, sql) ==
    /\ j > 2
    /\ calls[j].op = "fetchone"
    /\ calls[j].res = "ok"
    /\ IsExecute(j - 2, sql)
    /\ calls[j - 2].res = "ok"

NoFaultInjected == \A j \in DOMAIN calls : calls[j].res # "fault"

\* The log is that of create_tables().
InCreateTables == calls # <<>> /\ calls[1].sql = "DROP TABLE employee"

\* C1: every generated employee with a chief has it among the employees
\* generated earlier in the run, with an id that had been read back from the
\* store before the employee's own insert was issued; so no employee is its
\* own chief and the chief edges, in the objects and in the rows, point only
\* to earlier-created employees.
Thm_C1 ==
    /\ \A i \in DOMAIN employees :
           employees[i].chief # None =>
               /\ employees[i].chief \in 1 .. (i - 1)
               /\ employees[employees[i].chief].id # None
    /\ \A j \in DOMAIN calls :
           (IsExecute(j, "INSERT INTO employee") /\ calls[j].args.chief_id # None) =>
               \E k \in 1 .. (j - 1) :
                   /\ IsIdentityOf(k, "INSERT INTO employee")
                   /\ calls[k].val = calls[j].args.chief_id
    /\ \A i \in DOMAIN db.employee.rows :
           db.employee.rows[i].chief_id # None =>
               /\ db.employee.rows[i].chief_id < db.employee.rows[i].id
               /\ db.employee.rows[i].chief_id \in Ids(db.employee)

\* A run in which the third employee's chief is the second, whose chief is
\* the first.
Witness_C1 ==
    /\ pc = "return"
    /\ Len(employees) = 3
    /\ employees[3].chief = 2
    /\ employees[2].chief = 1
    /\ db.employee.rows[3].chief_id = employees[2].id

\* C2 (as stated): every generated salary s has 20000 <= s < 100001.
Orig_C2 ==
    \A i \in DOMAIN employees :
        employees[i].salary >= 20000 /\ employees[i].salary < 100001

\* C4: when create_fake_data(d, e) with d >= 1 has returned, the department
\* table holds exactly d rows and the employee table exactly e, committed;
\* every employee row references one of the department rows and every
\* non-null chief_id an employee row; the two lists have d and e objects,
\* the i-th object being the i-th row inserted.
Thm_C4 ==
    (pc = "return" /\ departments_amount >= 1) =>
        /\ Len(db.department.rows) = departments_amount
        /\ Len(db.employee.rows) = employees_amount
        /\ committed = db
        /\ \A i \in DOMAIN db.employee.rows :
               /\ db.employee.rows[i].department_id \in Ids(db.department)
               /\ db.employee.rows[i].chief_id # None =>
                      db.employee.rows[i].chief_id \in Ids(db.employee)
        /\ Len(departments) = departments_amount
        /\ Len(employees) = employees_amount
        /\ \A i \in DOMAIN departments :
               db.department.rows[i] = [id |-> departments[i].id,
                                        name |-> departments[i].name]
        /\ \A i \in DOMAIN employees :
               db.employee.rows[i] =
                   [id |-> employees[i].id,
                    department_id |-> departments[employees[i].department].id,
                    chief_id |-> ChiefId(employees[i], employees),
                    name |-> employees[i].name,
                    salary |-> employees[i].salary]
        /\ \A i, j \in DOMAIN db.employee.rows :
               i < j => db.employee.rows[i].id < db.employee.rows[j].id
        /\ \A i, j \in DOMAIN db.department.rows :
               i < j => db.department.rows[i].id < db.department.rows[j].id

\* create_fake_data(2, 3) has returned, with an employee in each department
\* and one employee the chief of another.
Witness_C4 ==
    /\ pc = "return"
    /\ departments_amount = 2
    /\ employees_amount = 3
    /\ Len(db.employee.rows) = 3
    /\ {db.employee.rows[i].department_id : i \in 1 .. 3} = Ids(db.department)
    /\ \E i \in 1 .. 3 : db.employee.rows[i].chief_id # None

\* C9: every insert of an employee is issued with a non-null department id,
\* that of a department object of the run, read back from the store after
\* that department's insert and committed before the employee insert.
Thm_C9 ==
    /\ \A i \in DOMAIN employees :
           /\ employees[i].department \in DOMAIN departments
           /\ departments[employees[i].department].id # None
    /\ \A j \in DOMAIN calls :
           IsExecute(j, "INSERT INTO employee") =>
               /\ calls[j].args.department_id # None
               /\ calls[j].args.department_id \in Ids(committed.department)
               /\ \E k \in 1 .. (j - 2) :
                      /\ IsIdentityOf(k, "INSERT INTO department")
                      /\ calls[k].val = calls[j].args.department_id
                      /\ calls[k + 1].op = "commit"
                      /\ calls[k + 1].res = "ok"

\* An employee insert was accepted by the store.
Witness_C9 ==
    \E j \in DOMAIN calls :
        /\ IsExecute(j, "INSERT INTO employee")
        /\ calls[j].res = "ok"
        /\ calls[j].args.department_id = departments[Len(departments)].id

\* C5: create_tables(), when no call of it fails in the driver or the
\* connection, raises nothing whatever the store held (no table, tables
\* with rows referencing each other), and when it has returned both tables
\* exist, empty, in the session and committed; a second consecutive reset
\* included.
Thm_C5 ==
    (InCreateTables /\ NoFaultInjected) =>
        /\ pc # "aborted"
        /\ pc = "create_fake_data" =>
               /\ db = EmptyTables
               /\ committed = EmptyTables

\* create_tables() has returned after dropping two existing tables.
Witness_C5 ==
    /\ pc = "create_fake_data"
    /\ NoFaultInjected
    /\ Len(calls) = 8
    /\ calls[1].res = "ok"
    /\ calls[3].res = "ok"
    /\ db = EmptyTables

DropStatements == {"DROP TABLE employee", "DROP TABLE department"}

\* Call j belongs to a drop_table(): its execute, or the commit after it.
InDropTable(j) ==
    \/ calls[j].op = "execute" /\ calls[j].sql \in DropStatements
    \/ calls[j].op = "commit" /\ j > 1 /\ calls[j - 1].sql \in DropStatements

\* A failed call outside the drops is the last call made, and the run is over.
FailureEndsRun ==
    \A j \in DOMAIN calls :
        (calls[j].res # "ok" /\ ~InDropTable(j)) =>
            j = Len(calls) /\ pc = "aborted"

\* No statement of the reset is issued twice, and no insert is issued beyond
\* one for each object made and one for the object whose save failed.
NothingRetried ==
    /\ \A j, k \in DOMAIN calls :
           (j < k /\ calls[j].op = "execute" /\ calls[k].op = "execute"
            /\ calls[j].sql = calls[k].sql) =>
               /\ calls[j].res = "ok"
               /\ calls[j].sql \in {"INSERT INTO department", "INSERT INTO employee",
                                    "SELECT @@IDENTITY"}
    /\ Cardinality({j \in DOMAIN calls : IsExecute(j, "INSERT INTO department")})
           <= Len(departments) + 1
    /\ Cardinality({j \in DOMAIN calls : IsExecute(j, "INSERT INTO employee")})
           <= Len(employees) + 1

\* The step on which an exception leaves the program uncaught changes nothing
\* committed, and leaves the store holding exactly what was committed.
AbortKeepsCommitted ==
    (pc # "aborted" /\ pc' = "aborted") => (committed' = committed /\ db' = committed)

\* C6: a failed persistence call other than those of a table drop ends the
\* run with no call after it, nothing is retried, and what was committed
\* before the failure stays committed.
Thm_C6 == [](FailureEndsRun /\ NothingRetried) /\ [][AbortKeepsCommitted]_vars

\* A run ended by a failed insert after rows had been committed.
Witness_C6 ==
    /\ pc = "aborted"
    /\ calls # <<>>
    /\ Last(calls).res # "ok"
    /\ IsExecute(Len(calls), "INSERT INTO employee")
    /\ Len(committed.employee.rows) = 1
    /\ Len(committed.department.rows) = 2

\* C8: get_random_departments(0) returns an empty list and
\* get_random_employees(n, []) returns an empty list, both without a call on
\* the cursor or the connection and without a change of the store.
Thm_C8 ==
    /\ [](pc = "return" /\ departments_amount = 0 =>
              /\ departments = <<>>
              /\ employees = <<>>
              /\ calls = <<>>
              /\ db = EmptyTables
              /\ committed = EmptyTables)
    /\ [][/\ (pc = "get_random_departments" /\ departments_amount = 0) =>
                 /\ pc' = "get_random_employees"
                 /\ departments' = <<>>
                 /\ calls' = calls
                 /\ db' = db
                 /\ committed' = committed
          /\ (pc = "get_random_employees" /\ departments = <<>>) =>
                 /\ pc' = "return"
                 /\ employees' = <<>>
                 /\ calls' = calls
                 /\ db' = db
                 /\ committed' = committed]_vars

\* create_fake_data(0, n) with n > 0 has returned.
Witness_C8 ==
    /\ pc = "return"
    /\ departments_amount = 0
    /\ employees_amount > 0
    /\ employees = <<>>
    /\ calls = <<>>

ResetStatements ==
    <<"DROP TABLE employee", "DROP TABLE department",
      "CREATE TABLE department", "CREATE TABLE employee">>

ResetPositions ==
    <<"Employee.drop_table", "Department.drop_table",
      "Department.create_table", "Employee.create_table", "create_fake_data">>

\* The positions of the executes in the log.
Executes == {j \in DOMAIN calls : calls[j].op = "execute"}

\* The m-th execute of the log.
NthExecute(m) ==
    CHOOSE j \in Executes : Cardinality({k \in Executes : k <= j}) = m

\* C10: create_tables() issues drop employee, drop department, create
\* department, create employee in this order, each once; it goes on to the
\* next statement whatever became of a drop, and stops only at a failed
\* create; create employee is issued only after create department succeeded;
\* an employee table never exists without the department table.
Thm_C10 ==
    /\ InCreateTables =>
           /\ Cardinality(Executes) <= Len(ResetStatements)
           /\ \A m \in 1 .. Cardinality(Executes) :
                  calls[NthExecute(m)].sql = ResetStatements[m]
           /\ \A m \in DOMAIN ResetPositions :
                  pc = ResetPositions[m] => Cardinality(Executes) = m - 1
           /\ pc = "aborted" =>
                  /\ Cardinality(Executes) >= 3
                  /\ Last(calls).res # "ok"
           /\ Cardinality(Executes) = 4 =>
                  /\ calls[NthExecute(3)].res = "ok"
                  /\ calls[NthExecute(3) + 1].res = "ok"
    /\ db.employee.exists => db.department.exists
    /\ committed.employee.exists => committed.department.exists

\* Both drops failed (nothing to drop) and both creates were then issued.
Witness_C10 ==
    /\ pc = "create_fake_data"
    /\ calls # <<>>
    /\ calls[1].res = "rejected"
    /\ calls[2].res = "rejected"
    /\ Cardinality(Executes) = 4
    /\ IsExecute(Len(calls) - 1, "CREATE TABLE employee")

\* The department rows other than that of id are the same in s and t, in the
\* same places.
SameDepartmentRowsBut(s, t, id) ==
    /\ Len(t.department.rows) = Len(s.department.rows)
    /\ \A k \in DOMAIN s.department.rows :
           s.department.rows[k].id # id => t.department.rows[k] = s.department.rows[k]

SameEmployeeRowsBut(s, t, id) ==
    /\ Len(t.employee.rows) = Len(s.employee.rows)
    /\ \A k \in DOMAIN s.employee.rows :
           s.employee.rows[k].id # id => t.employee.rows[k] = s.employee.rows[k]

\* The first save of a Department, made by its constructor.
FirstSaveDepartment ==
    \A n \in ApiNames :
        ConstructDepartment(n) =>
            /\ Len(departments') = Len(departments) + 1
            /\ Last(departments').id # None
            /\ Last(departments').id \notin Ids(db.department)
            /\ SubSeq(departments', 1, Len(departments)) = departments
            /\ db'.department.rows =
                   Append(db.department.rows,
                          [id |-> Last(departments').id, name |-> Last(departments').name])
            /\ db'.employee = db.employee
            /\ committed' = db'

\* A later save of a Department.
SecondSaveDepartment ==
    \A i \in DOMAIN departments :
        SaveDepartment(i) =>
            /\ departments'[i].id = departments[i].id
            /\ SameDepartmentRowsBut(db, db', departments[i].id)
            /\ \E k \in DOMAIN db.department.rows :
                   /\ db.department.rows[k].id = departments[i].id
                   /\ db'.department.rows[k] =
                          [id |-> departments[i].id, name |-> departments[i].name]
            /\ db'.employee = db.employee
            /\ committed' = db'

FirstSaveEmployee ==
    \A d \in DOMAIN departments, c \in {None} \cup DOMAIN employees,
       n \in ApiNames, x \in ApiSalaries :
        ConstructEmployee(d, c, n, x) =>
            /\ Len(employees') = Len(employees) + 1
            /\ Last(employees').id # None
            /\ Last(employees').id \notin Ids(db.employee)
            /\ SubSeq(employees', 1, Len(employees)) = employees
            /\ db'.employee.rows =
                   Append(db.employee.rows,
                          [id |-> Last(employees').id,
                           department_id |-> departments[d].id,
                           chief_id |-> IF c = None THEN None ELSE employees[c].id,
                           name |-> Last(employees').name, salary |-> x])
            /\ db'.department = db.department
            /\ committed' = db'

SecondSaveEmployee ==
    \A i \in DOMAIN employees :
        SaveEmployee(i) =>
            /\ employees'[i].id = employees[i].id
            /\ SameEmployeeRowsBut(db, db', employees[i].id)
            /\ \E k \in DOMAIN db.employee.rows :
                   /\ db.employee.rows[k].id = employees[i].id
                   /\ db'.employee.rows[k] =
                          [id |-> employees[i].id,
                           department_id |-> departments[employees[i].department].id,
                           chief_id |-> ChiefId(employees[i], employees),
                           name |-> employees[i].name,
                           salary |-> employees[i].salary]
            /\ db'.department = db.department
            /\ committed' = db'

\* C7: the save of a new Department or Employee inserts exactly one row and
\* gives the object an id no row had; a save of the object afterwards sets
\* the row of that id to the object's fields, adds no row, changes no other
\* row and leaves the object's id as it was.
Thm_C7 ==
    [][/\ FirstSaveDepartment
       /\ SecondSaveDepartment
       /\ FirstSaveEmployee
       /\ SecondSaveEmployee]_vars

\* One department and one employee, each saved again after its name, and the
\* employee's salary and chief, were assigned to: the rows hold the new values.
Witness_C7 ==
    /\ Len(departments) = 1
    /\ Len(employees) = 1
    /\ employees[1].name # name_arg
    /\ db.employee.rows =
           <<[id |-> employees[1].id, department_id |-> departments[1].id,
              chief_id |-> None, name |-> employees[1].name,
              salary |-> SalaryLow + 1]>>
    /\ db.department.rows =
           <<[id |-> departments[1].id, name |-> name(1)]>>
    /\ employees[1].name = name(1)

\* The names held by the objects and by the rows.
StoredNames ==
    {departments[i].name : i \in DOMAIN departments}
        \cup {employees[i].name : i \in DOMAIN employees}
        \cup {db.department.rows[i].name : i \in DOMAIN db.department.rows}
        \cup {db.employee.rows[i].name : i \in DOMAIN db.employee.rows}

\* t with its leading and trailing whitespace removed and every other run of
\* whitespace replaced by one space.
RECURSIVE Squeeze(_)
Squeeze(t) ==
    IF t = <<>> THEN <<>>
    ELSE IF t[1].c \in Whitespace THEN Squeeze(Tail(t))
    ELSE LET r == Squeeze(Tail(t))
         IN  IF r = <<>> THEN <<t[1]>> ELSE <<t[1], Run(" ", 1)>> \o r

\* t has no leading or trailing whitespace and single spaces between words.
IsSqueezed(t) ==
    \A i \in DOMAIN t :
        t[i].c \in Whitespace => (t[i] = Run(" ", 1) /\ 1 < i /\ i < Len(t))

\* The characters of p are the first characters of t.
IsPrefixText(p, t) ==
    \/ p = <<>>
    \/ /\ Len(p) <= Len(t)
       /\ \A i \in 1 .. (Len(p) - 1) : p[i] = t[i]
       /\ Last(p).c = t[Len(p)].c
       /\ Last(p).n >= 1
       /\ Last(p).n <= t[Len(p)].n

\* C3 (as stated): the stored name has at most 100 characters, and a name of
\* 100 characters or fewer is stored unchanged.
Orig_C3 ==
    \A stored \in StoredNames :
        /\ TextLen(stored) <= 100
        /\ TextLen(name_arg) <= 100 => stored = name_arg

\* C3 (amended): the stored name has at most 100 characters and no marker:
\* it is made of the first characters of the name with its whitespace
\* squeezed; it is the whole squeezed name when that has 100 characters or
\* fewer, so a name of 100 characters or fewer without leading, trailing or
\* repeated whitespace is stored unchanged.
Thm_C3 ==
    \A stored \in StoredNames :
        /\ TextLen(stored) <= 100
        /\ IsPrefixText(stored, Squeeze(name_arg))
        /\ TextLen(Squeeze(name_arg)) <= 100 => stored = Squeeze(name_arg)
        /\ (TextLen(name_arg) <= 100 /\ IsSqueezed(name_arg)) => stored = name_arg

\* A name of more than 100 characters was cut between two words, for the
\* Department and for the Employee.
Witness_C3 ==
    /\ employees # <<>>
    /\ TextLen(name_arg) > 100
    /\ IsSqueezed(name_arg)
    /\ employees[1].name # <<>>
    /\ TextLen(employees[1].name) < 100
    /\ db.employee.rows[1].name = employees[1].name
    /\ db.department.rows[1].name = employees[1].name

====
